---- MODULE Spec2Model ----
(***************************************************************************)
(* Model of scripts/download_wiki_plates.py: the wikitext table extractor, *)
(* the row classifier, the territory code mapper and the sequential        *)
(* resolve/download pipeline of main().                                    *)
(*                                                                         *)
(* Markup is modelled as a sequence of tokens, one token per piece of text *)
(* the code's searches and regular expressions can recognise:              *)
(*   heading  a section heading line, s = the heading text                 *)
(*   open     the table-open marker  {|                                    *)
(*   close    the table-close marker |}                                    *)
(*   rowsep   the row separator      \n|-                                  *)
(*   code     a link [[Vehicle registration plates of X|LABEL]] matched by *)
(*            the code regex, s = LABEL (the captured group)               *)
(*   file     a reference [[File:NAME or [[Image:NAME matched by the file  *)
(*            regex, s = NAME exactly as captured (before .strip())        *)
(*   text     any other markup                                             *)
(* File names and codes are strings; lower(), strip() and the substring    *)
(* test are computed character by character.                               *)
(***************************************************************************)
EXTENDS Integers, Sequences, FiniteSets, TLC

VARIABLES
    wikitext,     \* article markup returned by the Wikipedia API
    dry_run,      \* args.dry_run
    country,      \* args.country ("" when the flag is absent)
    pc,           \* position of main(): start, loop, download, done, ...
    entries,      \* main's entries list
    idx,          \* 1-based position of the for loop over entries
    info,         \* image info resolved for entries[idx], awaiting download
    metadata,     \* metadata["entries"]: iso -> result
    log_results,  \* log_results: iso -> logged result
    plate_files,  \* file names written under plates/europe
    meta_file,    \* content of metadata/wiki_plates.json on disk
    log_file,     \* content of metadata/wiki_download_log.json on disk
    last_request, \* the HTTP request issued by the latest step
    downloads,    \* number of calls of download_image
    row_text,     \* argument of _parse_table_row (row classifier runs)
    row_section,  \* argument of _parse_table_row
    row_entry     \* value returned by _parse_table_row

vars == <<wikitext, dry_run, country, pc, entries, idx, info, metadata,
          log_results, plate_files, meta_file, log_file, last_request,
          downloads, row_text, row_section, row_entry>>

\* Python's None, for values that are records otherwise.
None == [none |-> TRUE]

--------------------------------------------------------------------------
\* Bounds of the model.

\* longest row (in tokens) handed to the row classifier
MaxRowLen == 3

\* most blocks (headings, tables) of an article handed to the table extractor
MaxBlocks == 3

\* most data rows of such an article, over all its tables
MaxRows == 2

\* the same two bounds for the article fetched by a run of main()
MaxRunBlocks == 2
MaxRunRows == 2

--------------------------------------------------------------------------
\* Static tables (lines 43-127).

WIKI_CODE_TO_ISO ==
    ("A" :> "AT") @@ ("B" :> "BE") @@ ("BIH" :> "BA") @@ ("BG" :> "BG") @@
    ("HR" :> "HR") @@ ("CY" :> "CY") @@ ("CZ" :> "CZ") @@ ("DK" :> "DK") @@
    ("EST" :> "EE") @@ ("FIN" :> "FI") @@ ("F" :> "FR") @@ ("D" :> "DE") @@
    ("GR" :> "GR") @@ ("H" :> "HU") @@ ("IS" :> "IS") @@ ("IRL" :> "IE") @@
    ("I" :> "IT") @@ ("LV" :> "LV") @@ ("FL" :> "LI") @@ ("LT" :> "LT") @@
    ("L" :> "LU") @@ ("M" :> "MT") @@ ("MC" :> "MC") @@ ("MNE" :> "ME") @@
    ("NL" :> "NL") @@ ("NMK" :> "MK") @@ ("N" :> "NO") @@ ("PL" :> "PL") @@
    ("P" :> "PT") @@ ("RO" :> "RO") @@ ("RSM" :> "SM") @@ ("SRB" :> "RS") @@
    ("SK" :> "SK") @@ ("SLO" :> "SI") @@ ("E" :> "ES") @@ ("S" :> "SE") @@
    ("CH" :> "CH") @@ ("UA" :> "UA") @@ ("UK" :> "GB") @@ ("V" :> "VA") @@
    ("AND" :> "AD") @@ ("AM" :> "AM") @@ ("AZ" :> "AZ") @@ ("GE" :> "GE") @@
    ("RUS" :> "RU") @@ ("TR" :> "TR") @@ ("AX" :> "AX") @@ ("GBA" :> "GBA") @@
    ("FO" :> "FO") @@ ("GBZ" :> "GBZ") @@ ("GBG" :> "GBG") @@ ("GBM" :> "GBM") @@
    ("GBJ" :> "GBJ") @@ ("ABH" :> "ABH") @@ ("RKS" :> "XK") @@ ("TRNC" :> "TRNC") @@
    ("RSO" :> "RSO") @@ ("PMR" :> "PMR")

TERRITORY_NAMES ==
    ("AL" :> "Albania") @@ ("AD" :> "Andorra") @@ ("AT" :> "Austria") @@ ("BY" :> "Belarus") @@
    ("BE" :> "Belgium") @@ ("BA" :> "Bosnia and Herzegovina") @@ ("BG" :> "Bulgaria") @@ ("HR" :> "Croatia") @@
    ("CY" :> "Cyprus") @@ ("CZ" :> "Czech Republic") @@ ("DK" :> "Denmark") @@ ("EE" :> "Estonia") @@
    ("FI" :> "Finland") @@ ("FR" :> "France") @@ ("DE" :> "Germany") @@ ("GR" :> "Greece") @@
    ("HU" :> "Hungary") @@ ("IS" :> "Iceland") @@ ("IE" :> "Ireland") @@ ("IT" :> "Italy") @@
    ("LV" :> "Latvia") @@ ("LI" :> "Liechtenstein") @@ ("LT" :> "Lithuania") @@ ("LU" :> "Luxembourg") @@
    ("MT" :> "Malta") @@ ("MD" :> "Moldova") @@ ("MC" :> "Monaco") @@ ("ME" :> "Montenegro") @@
    ("NL" :> "Netherlands") @@ ("MK" :> "North Macedonia") @@ ("NO" :> "Norway") @@ ("PL" :> "Poland") @@
    ("PT" :> "Portugal") @@ ("RO" :> "Romania") @@ ("SM" :> "San Marino") @@ ("RS" :> "Serbia") @@
    ("SK" :> "Slovakia") @@ ("SI" :> "Slovenia") @@ ("ES" :> "Spain") @@ ("SE" :> "Sweden") @@
    ("CH" :> "Switzerland") @@ ("UA" :> "Ukraine") @@ ("GB" :> "United Kingdom") @@ ("VA" :> "Vatican City") @@
    ("AM" :> "Armenia") @@ ("AZ" :> "Azerbaijan") @@ ("GE" :> "Georgia") @@ ("RU" :> "Russia") @@
    ("TR" :> "Turkey") @@ ("AX" :> "Aland Islands") @@ ("GBA" :> "Alderney") @@ ("FO" :> "Faroe Islands") @@
    ("GBZ" :> "Gibraltar") @@ ("GBG" :> "Guernsey") @@ ("GBM" :> "Isle of Man") @@ ("GBJ" :> "Jersey") @@
    ("ABH" :> "Abkhazia") @@ ("XK" :> "Kosovo") @@ ("TRNC" :> "Northern Cyprus") @@ ("RSO" :> "South Ossetia") @@
    ("PMR" :> "Transnistria")

--------------------------------------------------------------------------
\* String helpers: str.lower(), str.upper(), str.strip(), "p in s".

UpperChars == "ABCDEFGHIJKLMNOPQRSTUVWXYZ"
LowerChars == "abcdefghijklmnopqrstuvwxyz"
Whitespace == {" ", "\t", "\n"}

CharAt(s, k) == SubSeq(s, k, k)

\* the character mapping of a case conversion: from[k] -> to[k]
CaseTable(from, to) ==
    [c \in {CharAt(from, k) : k \in 1..Len(from)} |->
        CharAt(to, CHOOSE k \in 1..Len(from) : CharAt(from, k) = c)]

LowerTable == CaseTable(UpperChars, LowerChars)
UpperTable == CaseTable(LowerChars, UpperChars)

RECURSIVE MapString(_, _, _)
MapString(s, k, table) ==
    IF k > Len(s) THEN ""
    ELSE (IF CharAt(s, k) \in DOMAIN table THEN table[CharAt(s, k)] ELSE CharAt(s, k))
            \o MapString(s, k + 1, table)

lower(s) == MapString(s, 1, LowerTable)
upper(s) == MapString(s, 1, UpperTable)

RECURSIVE lstrip(_)
lstrip(s) ==
    IF Len(s) > 0 /\ CharAt(s, 1) \in Whitespace
    THEN lstrip(SubSeq(s, 2, Len(s)))
    ELSE s

RECURSIVE rstrip(_)
rstrip(s) ==
    IF Len(s) > 0 /\ CharAt(s, Len(s)) \in Whitespace
    THEN rstrip(SubSeq(s, 1, Len(s) - 1))
    ELSE s

strip(s) == rstrip(lstrip(s))

\* p in s
Contains(s, p) ==
    \E k \in 1..(Len(s) - Len(p) + 1) : SubSeq(s, k, k + Len(p) - 1) = p

--------------------------------------------------------------------------
\* Utilities (lines 139-147).

mime_to_ext(mime) ==
    CASE mime = "image/jpeg"    -> ".jpg"
      [] mime = "image/png"     -> ".png"
      [] mime = "image/svg+xml" -> ".svg"
      [] mime = "image/gif"     -> ".gif"
      [] mime = "image/tiff"    -> ".tiff"
      [] mime = "image/webp"    -> ".webp"
      [] OTHER                  -> ".jpg"

--------------------------------------------------------------------------
\* Row classifier and entry normaliser: _parse_table_row (lines 263-324).

Tok(t, s) == [t |-> t, s |-> s]

\* the groups captured by re.findall of the file regex, in document order
RECURSIVE file_matches(_)
file_matches(row) ==
    IF row = <<>> THEN <<>>
    ELSE IF Head(row).t = "file" THEN <<Head(row).s>> \o file_matches(Tail(row))
    ELSE file_matches(Tail(row))

\* re.search of the code regex: position of the first match, 0 for no match
code_match(row) ==
    IF \E k \in 1..Len(row) : row[k].t = "code"
    THEN CHOOSE k \in 1..Len(row) :
            /\ row[k].t = "code"
            /\ \A j \in 1..(k - 1) : row[j].t # "code"
    ELSE 0

strip_patterns ==
    << "euroband", "eurobamd",
       "-band.", "band.png", "band.svg",
       "section-with", "section_with", "EU-section",
       "Non-EU-section", "Identifier", "Number Plate Band",
       "Blank Rear Identifier" >>

\* p.lower() for p in strip_patterns
strip_patterns_lower ==
    [k \in 1..Len(strip_patterns) |-> lower(strip_patterns[k])]

\* variant of is_strip that compares without lowering the file name
is_strip_case_sensitive(filename_clean) ==
    \E k \in 1..Len(strip_patterns) :
        Contains(filename_clean, strip_patterns_lower[k])

is_strip(filename_clean) ==
    LET name == lower(filename_clean)
    IN  \E k \in 1..Len(strip_patterns) :
            Contains(name, strip_patterns_lower[k])

\* the for loop of lines 304-310: <<>> while example_image is None,
\* <<name>> once it is assigned (the loop breaks there)
RECURSIVE example_image(_)
example_image(matches) ==
    IF matches = <<>> THEN <<>>
    ELSE LET filename_clean == strip(Head(matches))
         IN  IF ~is_strip(filename_clean) THEN <<filename_clean>>
             ELSE example_image(Tail(matches))

\* Python truthiness of example_image: None and "" are false
Falsy(img) == img = <<>> \/ img[1] = ""

\* variant of canonical_iso that skips the table
canonical_iso_identity(wiki_code) == wiki_code

canonical_iso(wiki_code) ==
    IF wiki_code \in DOMAIN WIKI_CODE_TO_ISO
    THEN WIKI_CODE_TO_ISO[wiki_code] ELSE wiki_code

canonical_name(iso, wiki_code) ==
    IF iso \in DOMAIN TERRITORY_NAMES
    THEN TERRITORY_NAMES[iso] ELSE wiki_code

_parse_table_row(row, section) ==
    IF code_match(row) = 0 THEN None
    ELSE IF file_matches(row) = <<>> THEN None
    ELSE LET wiki_code == row[code_match(row)].s
             img       == example_image(file_matches(row))
             iso       == canonical_iso(wiki_code)
         IN  IF Falsy(img) THEN None
             ELSE [ wiki_code  |-> wiki_code,
                    iso        |-> iso,
                    name       |-> canonical_name(iso, wiki_code),
                    image_file |-> "File:" \o img[1],
                    section    |-> section ]

--------------------------------------------------------------------------
\* Table extractor: parse_plate_tables (lines 223-260).

NotFound == 0

\* str.find(sub, start) on tokens: the first position >= start holding the
\* token, NotFound for Python's -1. Positions are 1-based.
find(text, token, start) ==
    IF \E k \in start..Len(text) : text[k] = token
    THEN CHOOSE k \in start..Len(text) :
            /\ text[k] = token
            /\ \A j \in start..(k - 1) : text[j] # token
    ELSE NotFound

TableOpen  == Tok("open", "{|")
TableClose == Tok("close", "|}")
RowSep     == Tok("rowsep", "\n|-")
Heading(header) == Tok("heading", header)

sections ==
    << [name |-> "countries",        header |-> "=== Countries ==="],
       [name |-> "transcontinental", header |-> "=== Transcontinental countries ==="],
       [name |-> "dependent",        header |-> "=== Dependent territories ==="],
       [name |-> "disputed",         header |-> "=== Disputed territories ==="] >>

\* re.split(r"\n\|-", table_text): the segments between row separators
RECURSIVE split_rows(_)
split_rows(table_text) ==
    LET sep == find(table_text, RowSep, 1)
    IN  IF sep = NotFound THEN <<table_text>>
        ELSE <<SubSeq(table_text, 1, sep - 1)>>
                \o split_rows(SubSeq(table_text, sep + 1, Len(table_text)))

\* variant of row_entries that walks the rows from the last one back
RECURSIVE row_entries_reversed(_, _, _)
row_entries_reversed(rows, k, section_name) ==
    IF k > Len(rows) THEN <<>>
    ELSE LET entry == _parse_table_row(rows[k], section_name)
         IN  row_entries_reversed(rows, k + 1, section_name)
                \o (IF entry # None THEN <<entry>> ELSE <<>>)

\* the loop of lines 255-258 over rows[k..]
RECURSIVE row_entries(_, _, _)
row_entries(rows, k, section_name) ==
    IF k > Len(rows) THEN <<>>
    ELSE LET entry == _parse_table_row(rows[k], section_name)
         IN  (IF entry # None THEN <<entry>> ELSE <<>>)
                \o row_entries(rows, k + 1, section_name)

\* one iteration of the loop over sections (lines 239-258), given the
\* position of the header: the entries it appends
table_entries(text, start, section_name) ==
    LET table_start == find(text, TableOpen, start)
        \* find("|}", -1) searches the last character only: never found
        table_end   == IF table_start = NotFound THEN NotFound
                       ELSE find(text, TableClose, table_start)
    IN  IF table_start = NotFound \/ table_end = NotFound THEN <<>>
        ELSE row_entries(split_rows(SubSeq(text, table_start, table_end - 1)),
                         2, section_name)

\* the loop over sections from sections[k] on; a missing header continues
\* with the next section
RECURSIVE parse_sections(_, _)
parse_sections(text, k) ==
    IF k > Len(sections) THEN <<>>
    ELSE LET start == find(text, Heading(sections[k].header), 1)
         IN  IF start = NotFound THEN parse_sections(text, k + 1)
             ELSE table_entries(text, start, sections[k].name)
                    \o parse_sections(text, k + 1)

\* variant of parse_sections in which a missing header ends the loop
RECURSIVE parse_sections_until_missing(_, _)
parse_sections_until_missing(text, k) ==
    IF k > Len(sections) THEN <<>>
    ELSE LET start == find(text, Heading(sections[k].header), 1)
         IN  IF start = NotFound THEN <<>>
             ELSE table_entries(text, start, sections[k].name)
                    \o parse_sections_until_missing(text, k + 1)

parse_until_missing(text) == parse_sections_until_missing(text, 1)

parse_plate_tables(text) == parse_sections(text, 1)

--------------------------------------------------------------------------
\* API helpers (lines 154-216). An HTTP exchange is recorded as
\*   [kind, statuses, retry_after, sleeps, outcome, page]
\* statuses: the status of each response received, in order; retry_after:
\* the Retry-After header of a 429 response ("" when it carries none);
\* sleeps: the time.sleep calls made; outcome: "ok", or the exception raised.

REQUEST_DELAY == 1
DefaultRetryAfter == 60

Statuses == {200, 429, 500}

\* Retry-After headers a server may send: none, seconds, an HTTP date
RetryAfterHeaders == {"", "2", "Mon, 02 Nov 2026 07:00:00 GMT"}

Digits == "0123456789"

IsDigits(s) ==
    /\ Len(s) > 0
    /\ \A k \in 1..Len(s) : \E d \in 1..Len(Digits) : CharAt(s, k) = CharAt(Digits, d)

\* int(s) for a string of digits
RECURSIVE int(_)
int(s) ==
    IF Len(s) = 0 THEN 0
    ELSE 10 * int(SubSeq(s, 1, Len(s) - 1))
            + (CHOOSE d \in 0..9 : CharAt(Digits, d + 1) = CharAt(s, Len(s)))

\* resp.raise_for_status(): 4xx and 5xx raise HTTPError
raise_for_status(status) == IF status >= 400 THEN "HTTPError" ELSE "ok"

Exchange(kind, statuses, retry_after, sleeps, outcome) ==
    [kind |-> kind, statuses |-> statuses, retry_after |-> retry_after,
     sleeps |-> sleeps, outcome |-> outcome, page |-> ""]

\* _api_get: the exchanges one call can make
_api_get(kind) ==
    {Exchange(kind, <<first>>, "", <<REQUEST_DELAY>>, raise_for_status(first)) :
        first \in Statuses \ {429}}
    \cup
    {Exchange(kind, <<429>>, h, <<REQUEST_DELAY>>, "ValueError") :
        h \in {x \in RetryAfterHeaders : x # "" /\ ~IsDigits(x)}}
    \cup
    {Exchange(kind, <<429, second>>, h,
              <<REQUEST_DELAY, IF h = "" THEN DefaultRetryAfter ELSE int(h)>>,
              raise_for_status(second)) :
        h \in {x \in RetryAfterHeaders : x = "" \/ IsDigits(x)},
        second \in Statuses}

\* the HTTP part of download_image (lines 211-213); url "" stands for None,
\* which requests rejects before sending anything
download_request(url) ==
    IF url = ""
    THEN {Exchange("download", <<>>, "", <<REQUEST_DELAY>>, "MissingSchema")}
    ELSE {Exchange("download", <<r[1]>>, r[2], <<REQUEST_DELAY>>,
                   raise_for_status(r[1])) :
             r \in {x \in Statuses \X RetryAfterHeaders :
                       x[1] = 429 \/ x[2] = ""}}

\* Commons answers to the imageinfo query: no page at all, the page id
\* "-1" of a missing title, a page without imageinfo, a page with it
ImageInfoResponses ==
    { [page_id |-> "",   url |-> "", mime |-> ""],
      [page_id |-> "-1", url |-> "", mime |-> ""],
      [page_id |-> "7",  url |-> "", mime |-> ""],
      [page_id |-> "7",  url |-> "https://upload.wikimedia.org/plate.svg",
                         mime |-> "image/svg+xml"] }

\* variant of get_image_info without the "-1" test
get_image_info_no_sentinel(response) ==
    IF response.page_id = "" THEN None
    ELSE [url |-> response.url, mime |-> response.mime]

\* get_image_info, after the request (lines 187-206)
get_image_info(response) ==
    IF response.page_id = "" THEN None
    ELSE IF response.page_id = "-1" THEN None
    ELSE [url |-> response.url, mime |-> response.mime]

--------------------------------------------------------------------------
\* Per-entry processing and main (lines 331-477).

EmptyDict == <<>>

\* d[key] = value
Put(d, key, value) == (key :> value) @@ d

failed_result(image_file) ==
    [status |-> "failed",
     reason |-> "Image not found on Commons: " \o image_file]

dry_result(entry, image_info) ==
    [status |-> "success_dry", image_file |-> entry.image_file,
     mime |-> image_info.mime]

plate_file_name(entry, image_info) ==
    entry.iso \o "_wiki" \o mime_to_ext(image_info.mime)

success_result(entry, image_info) ==
    [status |-> "success", country_name |-> entry.name, iso |-> entry.iso,
     section |-> entry.section,
     file_name |-> plate_file_name(entry, image_info),
     source_file |-> entry.image_file, download_url |-> image_info.url,
     mime_type |-> image_info.mime]

\* lines 442-449: what main records for a result
log_entry(entry, result) ==
    IF result.status \in {"success", "success_dry"}
    THEN [status |-> result.status, image_file |-> entry.image_file]
    ELSE result

metadata_entry(md, entry, result) ==
    IF result.status \in {"success", "success_dry"}
    THEN Put(md, entry.iso, result)
    ELSE md

\* variant of written_metadata that writes on every run
written_metadata_always(dry, on_disk, md) == md

\* lines 452-454: wiki_plates.json after the incremental write
written_metadata(dry, on_disk, md) == IF ~dry THEN md ELSE on_disk

\* lines 418-420: the --country filter
filter_country(es, arg) ==
    IF arg = "" THEN es
    ELSE SelectSeq(es, LAMBDA e : e.iso = upper(arg))

\* lines 457-467
run_log(dry, es, results) ==
    [dry_run       |-> dry,
     total_entries |-> Len(es),
     successful    |-> Cardinality({k \in DOMAIN results :
                           Contains(results[k].status, "success")}),
     failed        |-> Cardinality({k \in DOMAIN results :
                           results[k].status = "failed"}),
     results       |-> results]

--------------------------------------------------------------------------
\* Runs of the row classifier alone: every row of at most MaxRowLen tokens.

RowCodes == {"D", "UK", "AL", "XYZ"}

RowFiles ==
    { "Germany_euroband.png", "Germany_license_plate.jpg", "Foo-BAND.svg",
      " UK plate.svg ", " " }

RowTokens ==
    {Tok("code", c) : c \in RowCodes} \cup {Tok("file", f) : f \in RowFiles}
        \cup {Tok("text", "")}

Rows == UNION {[1..n -> RowTokens] : n \in 0..MaxRowLen}

SectionNames == {"countries", "transcontinental", "dependent", "disputed"}

\* main() is not running in these runs
MainIdle ==
    /\ dry_run = FALSE
    /\ country = ""
    /\ entries = <<>>
    /\ idx = 0
    /\ info = None
    /\ metadata = <<>>
    /\ log_results = <<>>
    /\ plate_files = {}
    /\ meta_file = None
    /\ log_file = None
    /\ last_request = None
    /\ downloads = 0

InitRow ==
    /\ wikitext = <<>>
    /\ MainIdle
    /\ pc = "row_call"
    /\ row_text \in Rows
    /\ row_section = ""
    /\ row_entry = None

ParseTableRow ==
    /\ pc = "row_call"
    /\ \E section \in SectionNames :
         /\ row_section' = section
         /\ row_entry' = _parse_table_row(row_text, section)
    /\ pc' = "row_return"
    /\ UNCHANGED <<wikitext, dry_run, country, entries, idx, info, metadata,
                   log_results, plate_files, meta_file, log_file,
                   last_request, downloads, row_text>>

NextRow == ParseTableRow

SpecRow == InitRow /\ [][NextRow]_vars

--------------------------------------------------------------------------
\* Properties of the row classifier, stated for SpecRow.

\* the blocklist substrings, in lower case
Blocklist == {lower(strip_patterns[k]) : k \in 1..Len(strip_patterns)}

\* some blocklist substring occurs in name, compared case-insensitively
Blocklisted(name) ==
    LET lowered == lower(name)
    IN  \E p \in Blocklist : Contains(lowered, p)

CodePositions(row) == {k \in 1..Len(row) : row[k].t = "code"}
FilePositions(row) == {k \in 1..Len(row) : row[k].t = "file"}

\* the references of the row that name a file (the name is not blank) and
\* whose file name has no blocklist substring
Acceptable(row) ==
    {k \in FilePositions(row) :
        strip(row[k].s) # "" /\ ~Blocklisted(strip(row[k].s))}

Min(S) == CHOOSE k \in S : \A j \in S : k <= j

\* C1: a row with the code link and at least one image reference whose file
\* name contains no blocklist substring yields an entry whose wiki_code is
\* the link's label and whose image_file is the first such reference in
\* document order.
C1_FirstNonStripReturned ==
    (/\ pc = "row_return"
     /\ CodePositions(row_text) # {}
     /\ Acceptable(row_text) # {})
    => /\ row_entry # None
       /\ row_entry.wiki_code = row_text[Min(CodePositions(row_text))].s
       /\ row_entry.image_file =
              "File:" \o strip(row_text[Min(Acceptable(row_text))].s)

\* C2: a row without the code link, or whose image references all match the
\* blocklist, yields no entry; an entry that is returned never carries an
\* image_file matching the blocklist.
C2_NoEntryWithoutCodeOrPlate ==
    pc = "row_return" =>
        /\ CodePositions(row_text) = {} => row_entry = None
        /\ (\A k \in FilePositions(row_text) : Blocklisted(row_text[k].s))
              => row_entry = None
        /\ row_entry # None => ~Blocklisted(row_entry.image_file)

\* a row with the code link and two references, both strips, was dropped
C2_Witness ==
    /\ pc = "row_return"
    /\ CodePositions(row_text) # {}
    /\ Cardinality(FilePositions(row_text)) = 2
    /\ \A k \in FilePositions(row_text) : Blocklisted(row_text[k].s)
    /\ row_entry = None

\* C8: canonicalisation is total. The territory id is the WIKI_CODE_TO_ISO
\* value of a mapped code and the code itself otherwise, the display name is
\* the TERRITORY_NAMES value of that id and the code otherwise, and neither
\* is empty (UK gives GB / United Kingdom, XYZ gives XYZ / XYZ).
C8_CanonicalizationTotal ==
    (pc = "row_return" /\ row_entry # None) =>
        LET code == row_entry.wiki_code
            id   == row_entry.iso
        IN  /\ code \in DOMAIN WIKI_CODE_TO_ISO => id = WIKI_CODE_TO_ISO[code]
            /\ code \notin DOMAIN WIKI_CODE_TO_ISO => id = code
            /\ id \in DOMAIN TERRITORY_NAMES
                  => row_entry.name = TERRITORY_NAMES[id]
            /\ id \notin DOMAIN TERRITORY_NAMES => row_entry.name = code
            /\ id # "" /\ row_entry.name # ""
            /\ code = "UK" => id = "GB" /\ row_entry.name = "United Kingdom"
            /\ code = "XYZ" => id = "XYZ" /\ row_entry.name = "XYZ"
            /\ code = "AL" => id = "AL" /\ row_entry.name = "Albania"

\* an entry for the mapped code UK was produced
C8_Witness ==
    /\ pc = "row_return"
    /\ row_entry # None
    /\ row_entry.wiki_code = "UK"
    /\ row_entry.iso = "GB"

--------------------------------------------------------------------------
\* Runs of the table extractor alone: articles built from headings and
\* tables, at most MaxBlocks blocks holding at most MaxRows data rows.

HeaderCells == Tok("text", "")

RowKinds ==
    { <<Tok("text", ""), Tok("code", "D"),
        Tok("file", "Germany_euroband.png"),
        Tok("file", "Germany_license_plate.jpg")>>,
      <<Tok("code", "UK"), Tok("file", " UK plate.svg ")>> }

\* the sequences of n data rows, each preceded by its row separator
RECURSIVE TableBodies(_)
TableBodies(n) ==
    IF n = 0 THEN {<<>>}
    ELSE {<<RowSep>> \o row \o rest : row \in RowKinds, rest \in TableBodies(n - 1)}

Table(body) == <<TableOpen, HeaderCells>> \o body \o <<TableClose>>

\* blocks without data rows: the four headings and a table left unclosed
PlainBlocks ==
    {<<Heading(sections[k].header)>> : k \in 1..Len(sections)}
        \cup {<<TableOpen, HeaderCells>>}

RECURSIVE ArticlesOf(_, _)
ArticlesOf(blocks, rows) ==
    IF blocks = 0 THEN {<<>>}
    ELSE {<<>>}
         \cup {b \o rest : b \in PlainBlocks, rest \in ArticlesOf(blocks - 1, rows)}
         \cup UNION { {Table(body) \o rest :
                          body \in TableBodies(n),
                          rest \in ArticlesOf(blocks - 1, rows - n)} :
                      n \in 1..rows }

Articles == ArticlesOf(MaxBlocks, MaxRows)

InitParse ==
    /\ wikitext \in Articles
    /\ MainIdle
    /\ pc = "parse_call"
    /\ row_text = <<>>
    /\ row_section = ""
    /\ row_entry = None

ParsePlateTables ==
    /\ pc = "parse_call"
    /\ entries' = parse_plate_tables(wikitext)
    /\ pc' = "parse_return"
    /\ UNCHANGED <<wikitext, dry_run, country, idx, info, metadata,
                   log_results, plate_files, meta_file, log_file,
                   last_request, downloads, row_text, row_section, row_entry>>

NextParse == ParsePlateTables

SpecParse == InitParse /\ [][NextParse]_vars

--------------------------------------------------------------------------
\* Runs of main(): any article of at most MaxRunBlocks blocks and
\* MaxRunRows data rows, with or without --dry-run and --country.

CountryArgs == {"", "de"}

RunArticles == ArticlesOf(MaxRunBlocks, MaxRunRows)

Init ==
    /\ wikitext \in RunArticles
    /\ dry_run \in BOOLEAN
    /\ country \in CountryArgs
    /\ pc = "start"
    /\ entries = <<>>
    /\ idx = 0
    /\ info = None
    /\ metadata = EmptyDict
    /\ log_results = EmptyDict
    /\ plate_files = {}
    /\ meta_file = None
    /\ log_file = None
    /\ last_request = None
    /\ downloads = 0
    /\ row_text = <<>>
    /\ row_section = ""
    /\ row_entry = None

\* an exception leaves main: nothing more is written
Abort(exchange) ==
    /\ pc' = "aborted"
    /\ last_request' = exchange
    /\ UNCHANGED <<entries, idx, info, metadata, log_results, plate_files,
                   meta_file, log_file>>

\* lines 438-454 for the entry at idx, once process_entry has returned
Record(entry, result) ==
    /\ metadata' = metadata_entry(metadata, entry, result)
    /\ log_results' = Put(log_results, entry.iso, log_entry(entry, result))
    /\ meta_file' = written_metadata(dry_run, meta_file,
                                     metadata_entry(metadata, entry, result))
    /\ idx' = idx + 1
    /\ info' = None
    /\ pc' = "loop"

\* lines 413-436: fetch the article, parse it, apply the filter
FetchAndParse ==
    /\ pc = "start"
    /\ \E exchange \in _api_get("article") :
         IF exchange.outcome # "ok"
         THEN /\ Abort(exchange)
              /\ UNCHANGED downloads
         ELSE LET parsed == filter_country(parse_plate_tables(wikitext), country)
              IN  /\ last_request' = exchange
                  /\ entries' = parsed
                  /\ IF country # "" /\ parsed = <<>>
                     THEN pc' = "unknown_country" /\ idx' = idx
                     ELSE pc' = "loop" /\ idx' = 1
                  /\ UNCHANGED <<info, metadata, log_results, plate_files,
                                 meta_file, log_file, downloads>>
    /\ UNCHANGED <<wikitext, dry_run, country, row_text, row_section, row_entry>>

\* process_entry up to the download (lines 334-361), and lines 442-454 of
\* main when process_entry returns without downloading
ResolveEntry ==
    /\ pc = "loop"
    /\ idx <= Len(entries)
    /\ \E exchange \in _api_get("imageinfo") :
         IF exchange.outcome # "ok"
         THEN /\ Abort(exchange)
              /\ UNCHANGED downloads
         ELSE \E response \in ImageInfoResponses :
                LET entry      == entries[idx]
                    image_info == get_image_info(response)
                IN  /\ last_request' = [exchange EXCEPT !.page = response.page_id]
                    /\ IF image_info = None
                       THEN /\ Record(entry, failed_result(entry.image_file))
                            /\ UNCHANGED <<plate_files, downloads>>
                       ELSE IF dry_run
                       THEN /\ Record(entry, dry_result(entry, image_info))
                            /\ UNCHANGED <<plate_files, downloads>>
                       ELSE /\ pc' = "download"
                            /\ info' = image_info
                            /\ UNCHANGED <<idx, metadata, log_results,
                                           plate_files, meta_file, downloads>>
                    /\ UNCHANGED <<entries, log_file>>
    /\ UNCHANGED <<wikitext, dry_run, country, row_text, row_section, row_entry>>

\* download_image and the rest of process_entry (lines 363-386), then
\* lines 442-454 of main
DownloadEntry ==
    /\ pc = "download"
    /\ downloads' = downloads + 1
    /\ \E exchange \in download_request(info.url) :
         IF exchange.outcome # "ok"
         THEN Abort(exchange)
         ELSE LET entry == entries[idx]
              IN  /\ last_request' = exchange
                  /\ plate_files' = plate_files \cup {plate_file_name(entry, info)}
                  /\ Record(entry, success_result(entry, info))
                  /\ UNCHANGED <<entries, log_file>>
    /\ UNCHANGED <<wikitext, dry_run, country, row_text, row_section, row_entry>>

\* lines 457-469: the final log
WriteLog ==
    /\ pc = "loop"
    /\ idx > Len(entries)
    /\ log_file' = run_log(dry_run, entries, log_results)
    /\ pc' = "done"
    /\ UNCHANGED <<wikitext, dry_run, country, entries, idx, info, metadata,
                   log_results, plate_files, meta_file, last_request,
                   downloads, row_text, row_section, row_entry>>

Next ==
    \/ FetchAndParse
    \/ ResolveEntry
    \/ DownloadEntry
    \/ WriteLog

Spec == Init /\ [][Next]_vars

--------------------------------------------------------------------------
\* Properties of the table extractor, stated for SpecParse.

DeclaredOrder == <<"countries", "transcontinental", "dependent", "disputed">>

Rank(section_name) ==
    CHOOSE k \in 1..Len(DeclaredOrder) : DeclaredOrder[k] = section_name

HeaderOf(section_name) ==
    CASE section_name = "countries"        -> "=== Countries ==="
      [] section_name = "transcontinental" -> "=== Transcontinental countries ==="
      [] section_name = "dependent"        -> "=== Dependent territories ==="
      [] section_name = "disputed"         -> "=== Disputed territories ==="

HeadingPositions(text, section_name) ==
    {k \in 1..Len(text) : text[k] = Heading(HeaderOf(section_name))}

AnyHeadingPositions(text) == {k \in 1..Len(text) : text[k].t = "heading"}

EntriesOf(es, section_name) ==
    SelectSeq(es, LAMBDA e : e.section = section_name)

\* the table the extractor reads for a section: from the first table-open
\* marker at or after the section's first heading to the next table-close
\* marker; <<0, 0>> when there is none
ReadTable(text, section_name) ==
    LET hs     == HeadingPositions(text, section_name)
        opens  == IF hs = {} THEN {}
                  ELSE {k \in Min(hs)..Len(text) : text[k] = TableOpen}
        closes == IF opens = {} THEN {}
                  ELSE {k \in Min(opens)..Len(text) : text[k] = TableClose}
    IN  IF closes = {} THEN <<0, 0>> ELSE <<Min(opens), Min(closes)>>

\* the row that starts at separator position sep of a table closed at close
RowFrom(text, sep, close) ==
    LET stops == {k \in (sep + 1)..close :
                     text[k] = RowSep \/ k = close}
    IN  SubSeq(text, sep + 1, Min(stops) - 1)

\* C6: the list is ordered by section declaration order and, within a
\* section, by the order of the rows in the table read for that section,
\* wherever the headings stand in the article.
C6_SectionThenRowOrder ==
    pc = "parse_return" =>
        /\ \A i \in 1..Len(entries) : \A j \in i..Len(entries) :
              Rank(entries[i].section) <= Rank(entries[j].section)
        /\ \A k \in 1..Len(DeclaredOrder) :
              LET own   == EntriesOf(entries, DeclaredOrder[k])
                  table == ReadTable(wikitext, DeclaredOrder[k])
                  seps  == IF table = <<0, 0>> THEN {}
                           ELSE {q \in table[1]..table[2] :
                                    wikitext[q] = RowSep}
              IN  \E f \in [1..Len(own) -> seps] :
                     /\ \A a \in 1..Len(own) : \A b \in 1..Len(own) :
                           a < b => f[a] < f[b]
                     /\ \A a \in 1..Len(own) :
                           own[a] = _parse_table_row(
                                        RowFrom(wikitext, f[a], table[2]),
                                        DeclaredOrder[k])

\* a later-declared section's heading stands first in the article, both
\* sections contribute entries, and one table contributes two different rows
C6_Witness ==
    /\ pc = "parse_return"
    /\ HeadingPositions(wikitext, "countries") # {}
    /\ HeadingPositions(wikitext, "transcontinental") # {}
    /\ Min(HeadingPositions(wikitext, "transcontinental"))
          < Min(HeadingPositions(wikitext, "countries"))
    /\ Len(EntriesOf(entries, "countries")) = 2
    /\ EntriesOf(entries, "countries")[1].wiki_code
          # EntriesOf(entries, "countries")[2].wiki_code
    /\ EntriesOf(entries, "transcontinental") # <<>>

RemoveAt(text, k) == SubSeq(text, 1, k - 1) \o SubSeq(text, k + 1, Len(text))

\* C7: a section whose heading is absent contributes no entry, and the other
\* sections' entries are what they are with the heading present: taking
\* the only heading of a section out of the article empties that section
\* and leaves every other section's entries as they were.
C7_MissingHeadingSkipsOnlyThatSection ==
    pc = "parse_return" =>
        \A k \in 1..Len(DeclaredOrder) :
            LET hs == HeadingPositions(wikitext, DeclaredOrder[k])
            IN  /\ hs = {} => EntriesOf(entries, DeclaredOrder[k]) = <<>>
                /\ Cardinality(hs) = 1 =>
                      LET without == parse_plate_tables(
                                         RemoveAt(wikitext, Min(hs)))
                      IN  /\ EntriesOf(without, DeclaredOrder[k]) = <<>>
                          /\ \A m \in 1..Len(DeclaredOrder) :
                                m # k =>
                                   EntriesOf(without, DeclaredOrder[m])
                                      = EntriesOf(entries, DeclaredOrder[m])

\* the disputed heading is absent, an earlier section is present once and
\* contributes entries, and so does another section
C7_Witness ==
    /\ pc = "parse_return"
    /\ HeadingPositions(wikitext, "disputed") = {}
    /\ Cardinality(HeadingPositions(wikitext, "countries")) = 1
    /\ EntriesOf(entries, "countries") # <<>>
    /\ EntriesOf(entries, "dependent") # <<>>

\* C10: every entry tagged with a section comes from a table lying between
\* that section's heading and the next heading of another section; a section
\* whose heading is followed by no table before that heading has no entries.
C10_EntriesFromOwnSection ==
    pc = "parse_return" =>
        \A k \in 1..Len(DeclaredOrder) :
            EntriesOf(entries, DeclaredOrder[k]) # <<>> =>
                LET start == Min(HeadingPositions(wikitext, DeclaredOrder[k]))
                    later == {h \in AnyHeadingPositions(wikitext) :
                                 h > start /\ wikitext[h] # wikitext[start]}
                    stop  == IF later = {} THEN Len(wikitext) ELSE Min(later)
                IN  \E q \in start..stop : wikitext[q] = TableOpen

--------------------------------------------------------------------------
\* Properties of the pipeline, stated for Spec.

\* the page ids with which Commons reports that a title does not exist
MissingPages == {"", "-1"}

\* C3: a request answered with 429 is retried exactly once after waiting the
\* Retry-After duration the server gave, and a request whose final answer is
\* an HTTP error status aborts the run; for the article fetch, the
\* image-info resolutions and the image downloads alike.
C3_RateLimitRetriedOnce ==
    (last_request # None /\ last_request.statuses # <<>>) =>
        /\ (last_request.statuses[1] = 429 /\ IsDigits(last_request.retry_after))
              => /\ Len(last_request.statuses) = 2
                 /\ last_request.sleeps
                       = <<REQUEST_DELAY, int(last_request.retry_after)>>
        /\ last_request.statuses[Len(last_request.statuses)] >= 400
              => pc = "aborted"

\* the step in which the resolution of entries[idx] reports a missing page
ResolvedMissing ==
    /\ pc = "loop"
    /\ idx <= Len(entries)
    /\ last_request'.kind = "imageinfo"
    /\ last_request'.outcome = "ok"
    /\ last_request'.page \in MissingPages

\* C4: when the resolution of an entry reports that the reference does not
\* exist, that entry and no other is logged with status "failed" and a
\* reason, nothing is downloaded or added to the metadata, the loop goes on
\* to the next entry, and a run that completes has logged every entry and
\* written the final log.
C4_MissingImageFailsOnlyThatEntry ==
    [][/\ ResolvedMissing =>
             LET iso == entries[idx].iso
             IN  /\ pc' = "loop"
                 /\ idx' = idx + 1
                 /\ DOMAIN log_results' = DOMAIN log_results \cup {iso}
                 /\ log_results'[iso].status = "failed"
                 /\ Len(log_results'[iso].reason) > 0
                 /\ \A k \in DOMAIN log_results \ {iso} :
                       log_results'[k] = log_results[k]
                 /\ downloads' = downloads
                 /\ plate_files' = plate_files
                 /\ metadata' = metadata
       /\ pc' = "done" =>
             /\ log_file' # None
             /\ log_file'.total_entries = Len(entries')
             /\ \A k \in 1..Len(entries') :
                   entries'[k].iso \in DOMAIN log_file'.results]_vars

\* a completed run of two entries: the first failed to resolve, the second
\* was downloaded
C4_Witness ==
    /\ pc = "done"
    /\ Len(entries) = 2
    /\ log_file.results[entries[1].iso].status = "failed"
    /\ log_file.results[entries[2].iso].status = "success"

\* C5: in a dry run every entry is resolved, download_image is never called,
\* no image file and no wiki_plates.json is written, and an entry that
\* resolves is logged with status "success_dry".
C5_DryRunWritesNothing ==
    dry_run =>
        /\ downloads = 0
        /\ plate_files = {}
        /\ meta_file = None
        /\ pc # "download"
        /\ last_request # None => last_request.kind # "download"
        /\ \A k \in DOMAIN log_results :
              log_results[k].status \in {"success_dry", "failed"}
        /\ (/\ last_request # None
            /\ last_request.kind = "imageinfo"
            /\ last_request.outcome = "ok"
            /\ last_request.page \notin MissingPages)
              => /\ pc \in {"loop", "done"}
                 /\ log_results[entries[idx - 1].iso].status = "success_dry"
        /\ pc = "done" =>
              \A k \in 1..Len(entries) : entries[k].iso \in DOMAIN log_results

\* a completed dry run that resolved two entries
C5_Witness ==
    /\ dry_run
    /\ pc = "done"
    /\ Len(entries) = 2
    /\ entries[1].iso # entries[2].iso
    /\ \A k \in 1..2 : log_file.results[entries[k].iso].status = "success_dry"

\* C9: after a completed run, successful + failed = total_entries, and a
\* territory id is in the metadata entries exactly when the log records a
\* success status for it, also when two entries share a territory id.
C9_SummaryCountsConsistent ==
    pc = "done" =>
        /\ log_file.successful + log_file.failed = log_file.total_entries
        /\ \A k \in 1..Len(entries) :
              entries[k].iso \in DOMAIN metadata
                 <=> Contains(log_file.results[entries[k].iso].status, "success")

====
